---- MODULE Spec2Model ----
(***************************************************************************)
(* Model of polynote's notebook state core:                                *)
(*   NotebookStateHandler  (selectCell, insertCell, deleteCell,            *)
(*                          setCellLanguage, the activeCellId observer)    *)
(*   NotebookUpdateHandler (addUpdate, the message builders, rebaseUpdate, *)
(*                          the cellOrder observer and watchCell)          *)
(* Every handler call is one action: the update it performs together with  *)
(* every observer notification that update triggers.                        *)
(***************************************************************************)
EXTENDS Integers, Sequences, FiniteSets, TLC

(* ------------------------------ bounds --------------------------------- *)
MaxCellId == 2
MaxVersion == 2
MaxGlobal == 1
MaxPublished == 2
MaxText == 2
MaxLen == 2

(* ----------------------------- constants ------------------------------- *)
\* `undefined`, as an integer outside every id and version.
Undefined == -9
\* new NotebookUpdateHandler(this, -1, -1, new EditBuffer())
InitialVersion == -1
\* cellOrder[prevIdx] ?? -1 : "no previous cell"
NoPrev == -1

CellIds == 0..MaxCellId
Languages == {"scala", "text"}
Contents == {"", "x"}
Chars == {"a", "b"}

VARIABLES
    cells,           \* NotebookState.cells : cell id -> CellState
    cellOrder,       \* NotebookState.cellOrder
    activeCellId,    \* NotebookState.activeCellId
    activeWatchers,  \* ids whose cell view holds an activeCellWatcher observer
    cellWatchers,    \* key set of NotebookUpdateHandler.cellWatchers
    watchObs,        \* id -> number of observer sets watchCell registered on it
    insertObs,       \* the observers insertCell registered on the cellOrder view
    globalVersion,   \* NotebookUpdateHandler.globalVersion
    localVersion,    \* NotebookUpdateHandler.localVersion
    edits,           \* NotebookUpdateHandler.edits (the EditBuffer)
    published,       \* NotebookUpdateHandler.state (the published messages)
    clientContent,   \* text of the cell edited in the rebase scenario (client)
    serverContent,   \* the same text as the authority holds it
    baseContent,     \* the text both started from
    config,          \* NotebookState.config : {open, config}
    waiters,         \* the observers waitForCellChange registered, and their promises
    observed,        \* the cells the observers were handed during the last call
    array,             \* an array held by a container, the target of array updates
    prevArray,         \* that array before the last update applied to it
    held,            \* an object held by a container, the target of key updates
    applied,         \* the last applyMutate: the update, its UpdateResult or error
    last             \* the last call: operation, arguments, result

vars == <<cells, cellOrder, activeCellId, activeWatchers, cellWatchers, watchObs,
          insertObs, globalVersion, localVersion, edits, published,
          clientContent, serverContent, baseContent, config, waiters, observed,
          array, prevArray, held, applied, last>>

nbVars == <<cells, cellOrder, activeCellId, activeWatchers, cellWatchers, watchObs, insertObs>>
textVars == <<clientContent, serverContent, baseContent>>
algebraVars == <<array, prevArray, held, applied>>
handlerVars == <<cells, cellOrder, activeCellId, activeWatchers, cellWatchers, watchObs,
                 insertObs, globalVersion, localVersion, edits, published,
                 clientContent, serverContent, baseContent, config, waiters, observed, last>>

(* ------------------------- arrays (0-based) ---------------------------- *)
\* Array.prototype.indexOf
IndexOf(arr, x) ==
    IF \E i \in 1..Len(arr) : arr[i] = x
    THEN (CHOOSE i \in 1..Len(arr) : arr[i] = x /\ \A j \in 1..(i - 1) : arr[j] # x) - 1
    ELSE -1

\* arr[idx], undefined outside the array
At(arr, idx) == IF idx >= 0 /\ idx < Len(arr) THEN arr[idx + 1] ELSE Undefined

\* Array.prototype.slice(start): a negative start counts from the end
Slice(arr, start) ==
    LET from == IF start < 0 THEN (IF Len(arr) + start < 0 THEN 0 ELSE Len(arr) + start)
                ELSE start
    IN  SubSeq(arr, from + 1, Len(arr))

Range(arr) == {arr[i] : i \in 1..Len(arr)}

\* diffArray(prev, next)[1]: the elements of next that prev does not hold
Added(prev, next) == SelectSeq(next, LAMBDA x : x \notin Range(prev))
\* diffArray(prev, next)[0]: the elements of prev that next does not hold
Removed(prev, next) == SelectSeq(prev, LAMBDA x : x \notin Range(next))

(* ------------------------------ messages ------------------------------- *)
NoMsg == [kind |-> "none", globalVersion |-> Undefined, localVersion |-> Undefined,
          id |-> Undefined, language |-> "", metadata |-> "undefined", prev |-> Undefined,
          edits |-> <<>>]

InsertCellMsg(gv, lv, cellId, language, metadata, prevId) ==
    [NoMsg EXCEPT !.kind = "InsertCell", !.globalVersion = gv, !.localVersion = lv,
                  !.id = cellId, !.language = language, !.metadata = metadata, !.prev = prevId]

DeleteCellMsg(gv, lv, id) ==
    [NoMsg EXCEPT !.kind = "DeleteCell", !.globalVersion = gv, !.localVersion = lv, !.id = id]

UpdateCellMsg(gv, lv, id, cedits, metadata) ==
    [NoMsg EXCEPT !.kind = "UpdateCell", !.globalVersion = gv, !.localVersion = lv,
                  !.id = id, !.edits = cedits, !.metadata = metadata]

SimpleMsg(kind, gv, lv, id) ==
    [NoMsg EXCEPT !.kind = kind, !.globalVersion = gv, !.localVersion = lv, !.id = id]

SetCellLanguageMsg(gv, lv, id, language) ==
    [NoMsg EXCEPT !.kind = "SetCellLanguage", !.globalVersion = gv, !.localVersion = lv,
                  !.id = id, !.language = language]

(* ----------------------------- EditBuffer ------------------------------ *)
\* EditBuffer.push(version, edit)
BufferPush(buf, version, edit) == Append(buf, [version |-> version, edit |-> edit])

\* EditBuffer.range(from, to): the edits with from < version <= to, in order
BufferRange(buf, from, to) ==
    LET kept == SelectSeq(buf, LAMBDA e : e.version > from /\ e.version <= to)
    IN  [i \in 1..Len(kept) |-> kept[i].edit]

\* EditBuffer.discard(until): drops the entries at or below `until`
BufferDiscard(buf, until) == SelectSeq(buf, LAMBDA e : e.version > until)

(* ------------------------ text edits (ContentEdit) --------------------- *)
\* A ContentEdit replaces `len` characters at `pos` by `text`.
Texts == UNION {[1..n -> Chars] : n \in 0..MaxText}
Inserted == UNION {[1..n -> Chars] : n \in 0..1}
ContentEdits(s) ==
    {[pos |-> p, len |-> l, text |-> t] :
        p \in 0..Len(s), l \in 0..Len(s), t \in Inserted} \ {[pos |-> p, len |-> 0, text |-> <<>>] : p \in 0..Len(s)}

\* String.prototype.substring(0, n) and substring(n): n is clamped to the string
Min(a, b) == IF a < b THEN a ELSE b
Before(s, n) == SubSeq(s, 1, Min(n, Len(s)))
From(s, n) == SubSeq(s, Min(n, Len(s)) + 1, Len(s))

\* ContentEdit.apply(content)
ApplyEdit(e, s) == Before(s, e.pos) \o e.text \o From(s, e.pos + e.len)

Fits(e, s) == e.pos + e.len <= Len(s)

\* EditString.applyMutate: fold each edit over the string, in order
RECURSIVE ApplyEdits(_, _)
ApplyEdits(es, s) == IF es = <<>> THEN s ELSE ApplyEdits(Tail(es), ApplyEdit(Head(es), s))

\* Range shifting: edit a, made against the text b was made against, re-expressed
\* for the text after b. An edit that starts at or after the end of b's range moves
\* by b's change of length; an edit before it stays.
RebaseEdit(a, b) ==
    IF b.pos + b.len <= a.pos THEN [a EXCEPT !.pos = a.pos + Len(b.text) - b.len] ELSE a

RECURSIVE RebaseEditOver(_, _)
RebaseEditOver(a, bs) == IF bs = <<>> THEN a ELSE RebaseEditOver(RebaseEdit(a, Head(bs)), Tail(bs))

\* ContentEdit.rebaseEdits(as, bs)
RebaseEdits(as, bs) == [i \in 1..Len(as) |-> RebaseEditOver(as[i], bs)]

\* NotebookUpdate.rebase(a, b) for one earlier update b
RebaseOne(a, b) ==
    IF a.kind = "UpdateCell" /\ b.kind = "UpdateCell" /\ a.id = b.id
    THEN [a EXCEPT !.edits = RebaseEdits(a.edits, b.edits)]
    ELSE IF a.kind = "InsertCell" /\ b.kind = "InsertCell" /\ a.prev = b.prev
    THEN [a EXCEPT !.prev = b.id]
    ELSE a

\* NotebookUpdate.rebase(a, prevUpdates): against each earlier update, in issue order
RECURSIVE Rebase(_, _)
Rebase(a, prevUpdates) ==
    IF prevUpdates = <<>> THEN a ELSE Rebase(RebaseOne(a, Head(prevUpdates)), Tail(prevUpdates))

(* --------------------------- update algebra ---------------------------- *)
\* Array elements are primitives, so === on them is equality of values.
Elems == {"a", "b"}
Arrays == UNION {[1..n -> Elems] : n \in 0..MaxLen}

\* The updates, as constructed: an InsertValue built without targetIndex has
\* index Undefined.
NoUpdate == [kind |-> "NoUpdate", value |-> "", index |-> Undefined]
InsertValue(v, targetIndex) == [kind |-> "InsertValue", value |-> v, index |-> targetIndex]
RemoveValue(v, index) == [kind |-> "RemoveValue", value |-> v, index |-> index]

\* What one applyMutate on an array leaves behind: the array (mutated in place or
\* not), the update instance, and the UpdateResult's update, addedValues and
\* removedValues, or the error thrown. newValue is the array itself.
ArrayResult(a, inst, update, addedAt, removedAt, err) ==
    [arr |-> a, inst |-> inst, update |-> update, defined |-> TRUE,
     addedAt |-> addedAt, removedAt |-> removedAt, err |-> err]

\* arr.splice(idx, 0, v) for idx >= 0
SpliceIn(a, idx, v) ==
    LET i == IF idx > Len(a) THEN Len(a) ELSE idx
    IN  SubSeq(a, 1, i) \o <<v>> \o SubSeq(a, i + 1, Len(a))

\* arr.splice(idx, 1)
SpliceOut(a, idx) == SubSeq(a, 1, idx) \o SubSeq(a, idx + 2, Len(a))

\* InsertValue.applyMutate (lines 662-685): `if (this._targetIndex)` is false for
\* undefined and for 0, and the else branch stores arr.length in the update.
insertValueApplyMutate(u, a) ==
    LET targetIndex == IF u.index # Undefined THEN u.index ELSE Len(a)
    IN  IF u.index # Undefined /\ u.index # 0
        THEN ArrayResult(SpliceIn(a, u.index, u.value), u,
                         "InsertValue", targetIndex, Undefined, "")
        ELSE ArrayResult(Append(a, u.value), [u EXCEPT !.index = Len(a)],
                         "InsertValue", targetIndex, Undefined, "")

\* arr[idx] === value
HoldsAt(a, idx, v) == idx \in 0..(Len(a) - 1) /\ a[idx + 1] = v

\* RemoveValue.applyMutate (lines 631-650)
removeValueApplyMutate(u, a) ==
    IF ~HoldsAt(a, u.index, u.value)
    THEN ArrayResult(a, u, "", Undefined, Undefined,
                     "RemoveValue is no longer valid as array has changed")
    ELSE ArrayResult(SpliceOut(a, u.index), u, "RemoveValue", Undefined, u.index, "")

\* An object with array fields: val holds the fields that have an array, undef the
\* keys that are present with the value undefined.
Keys == {"xs", "ys"}
Obj(val, undef) == [val |-> val, undef |-> undef]
NoFields == [k \in {} |-> <<>>]
KeysOf(obj) == DOMAIN obj.val \cup obj.undef

\* update.applyMutate(value[key]) for a child update of an object's field.
childApplyMutate(c, obj, key) ==
    LET has == key \in DOMAIN obj.val
        a == IF has THEN obj.val[key] ELSE <<>>
    IN  CASE c.kind = "NoUpdate" ->
                 [ArrayResult(a, c, "NoUpdate", Undefined, Undefined, "") EXCEPT !.defined = has]
          [] c.kind = "InsertValue" -> insertValueApplyMutate(c, a)
          [] OTHER ->
                 IF has THEN removeValueApplyMutate(c, a)
                 ELSE ArrayResult(a, c, "", Undefined, Undefined, "TypeError")

\* value[key] = updateResult.newValue
SetField(obj, key, r) ==
    IF r.defined
    THEN Obj([k \in DOMAIN obj.val \cup {key} |-> IF k = key THEN r.arr ELSE obj.val[k]],
             obj.undef \ {key})
    ELSE Obj([k \in DOMAIN obj.val \ {key} |-> obj.val[k]], obj.undef \cup {key})

\* What one applyMutate on an object leaves behind.
ObjectResult(obj, update, results, err) ==
    [obj |-> obj, update |-> update, results |-> results, err |-> err]

\* UpdateKey.applyMutate (lines 605-618)
updateKeyApplyMutate(key, c, obj) ==
    LET r == childApplyMutate(c, obj, key)
    IN  IF r.err # "" THEN ObjectResult(obj, "", <<>>, r.err)
        ELSE IF r.update = "NoUpdate" THEN ObjectResult(obj, "NoUpdate", <<r.update>>, "")
        ELSE ObjectResult(SetField(obj, key, r), "UpdateKey", <<r.update>>, "")

\* The loop of UpdateWith.applyMutate (lines 925-949) over the fieldUpdates, in key
\* order: each child is applied to value[key] and its newValue stored under the key.
RECURSIVE applyFieldUpdates(_, _, _)
applyFieldUpdates(fieldUpdates, obj, results) ==
    IF fieldUpdates = <<>> THEN ObjectResult(obj, "", results, "")
    ELSE LET f == Head(fieldUpdates)
             r == childApplyMutate(f.update, obj, f.key)
         IN  IF r.err # "" THEN ObjectResult(obj, "", results, r.err)
             ELSE applyFieldUpdates(Tail(fieldUpdates), SetField(obj, f.key, r),
                                    Append(results, r.update))

\* UpdateWith.applyMutate (lines 916-960) on an object
updateWithApplyMutate(fieldUpdates, obj) ==
    LET f == applyFieldUpdates(fieldUpdates, obj, <<>>)
        anyChanged == \E i \in 1..Len(f.results) : f.results[i] # "NoUpdate"
    IN  IF f.err # "" THEN f
        ELSE [f EXCEPT !.update = IF anyChanged THEN "UpdateWith" ELSE "NoUpdate"]

\* An object with primitive fields, as a function from its keys to their values.
DiffKeys == {"x", "y", "z"}
Objects == UNION {[ks -> Elems] : ks \in SUBSET DiffKeys}

\* A field of an UpdateResult that the result object does not have.
Absent == [defined |-> FALSE, keys |-> {}]

\* objectDiffUpdates(update, oldObj, newObj) (lines 761-848): compute() finds the
\* removed and added values and the updated keys and builds the fieldUpdates proxy
\* over them, but the returned object has the getters removedValues and addedValues
\* only (lines 833-846): it has no fieldUpdates property.
objectDiffUpdates(oldObj, newObj) ==
    LET removedValues == [k \in DOMAIN oldObj \ DOMAIN newObj |-> oldObj[k]]
        addedValues == [k \in DOMAIN newObj \ DOMAIN oldObj |-> newObj[k]]
        updatedKeys == DOMAIN removedValues \cup DOMAIN addedValues
                          \cup {k \in DOMAIN oldObj \cap DOMAIN newObj : oldObj[k] # newObj[k]}
        fieldUpdates == [defined |-> TRUE, keys |-> updatedKeys]
    IN  [update |-> "SetValue", newValue |-> newObj, removedValues |-> removedValues,
         addedValues |-> addedValues, fieldUpdates |-> Absent]

\* SetValue.applyMutate (lines 858-869) on an object; `identical` says that the value
\* of the update is the old value itself (oldValue === this.value).
setValueApplyMutate(newObj, identical, oldObj) ==
    IF identical
    THEN [update |-> "NoUpdate", newValue |-> oldObj, removedValues |-> <<>>,
          addedValues |-> <<>>, fieldUpdates |-> Absent]
    ELSE objectDiffUpdates(oldObj, newObj)

\* setTo(value) with no old value (lines 509-513): NoUpdate for undefined
setTo(obj, key) == IF key \in DOMAIN obj THEN "SetValue" ELSE "NoUpdate"

\* childResult(result, key) (lines 515-517): the update of the child's result
childResult(result, key) ==
    IF result.fieldUpdates.defined /\ key \in result.fieldUpdates.keys
    THEN (IF key \in DOMAIN result.removedValues THEN "Destroy" ELSE "SetValue")
    ELSE setTo(result.newValue, key)

(* ------------------------- the system as a record ---------------------- *)
Sys == [cells |-> cells, cellOrder |-> cellOrder, activeCellId |-> activeCellId,
        activeWatchers |-> activeWatchers, cellWatchers |-> cellWatchers,
        watchObs |-> watchObs, insertObs |-> insertObs,
        globalVersion |-> globalVersion, localVersion |-> localVersion,
        edits |-> edits, published |-> published,
        config |-> config, waiters |-> waiters, observed |-> {},
        err |-> "", ret |-> Undefined, out |-> NoMsg, handed |-> <<>>]

(* ------------------------ NotebookUpdateHandler ------------------------ *)
\* addUpdate without its version check (mutant for C4).
addUpdateUnchecked(s, update) ==
    [s EXCEPT !.edits = BufferPush(s.edits, update.localVersion, update),
              !.published = Append(s.published, update)]

\* addUpdate replacing the published list by the new message (mutant for C24).
addUpdateReplaces(s, update) ==
    IF update.localVersion # s.localVersion
    THEN [s EXCEPT !.err = "Update Version mismatch"]
    ELSE [s EXCEPT !.edits = BufferPush(s.edits, update.localVersion, update),
                   !.published = <<update>>]

\* addUpdate(update)
addUpdate(s, update) ==
    IF update.localVersion # s.localVersion
    THEN [s EXCEPT !.err = "Update Version mismatch"]
    ELSE [s EXCEPT !.edits = BufferPush(s.edits, update.localVersion, update),
                   !.published = Append(s.published, update)]

\* this.localVersion++
Increment(s) == [s EXCEPT !.localVersion = s.localVersion + 1]

\* NotebookUpdateHandler.insertCell(cellId, language, content, metadata, prevId)
uhInsertCell(s, cellId, language, metadata, prevId) ==
    LET s1 == Increment(s)
    IN  addUpdate(s1, InsertCellMsg(s1.globalVersion, s1.localVersion, cellId, language,
                                    metadata, prevId))

\* NotebookUpdateHandler.deleteCell(id)
uhDeleteCell(s, id) ==
    LET s1 == Increment(s)
    IN  addUpdate(s1, DeleteCellMsg(s1.globalVersion, s1.localVersion, id))

\* updateCell tagging its message with the globalVersion the handler was built with
\* (mutant for C23).
updateCellInitialGlobal(s, id, cedits, metadata) ==
    LET s1 == Increment(s)
    IN  addUpdate(s1, UpdateCellMsg(InitialVersion, s1.localVersion, id, cedits, metadata))

\* updateCell(id, {edits, metadata})
updateCell(s, id, cedits, metadata) ==
    LET s1 == Increment(s)
    IN  addUpdate(s1, UpdateCellMsg(s1.globalVersion, s1.localVersion, id, cedits, metadata))

\* createComment(cellId, comment)
createComment(s, cellId) ==
    addUpdate(s, SimpleMsg("CreateComment", s.globalVersion, s.localVersion, cellId))

\* deleteComment(cellId, commentId)
deleteComment(s, cellId) ==
    addUpdate(s, SimpleMsg("DeleteComment", s.globalVersion, s.localVersion, cellId))

\* updateComment(cellId, commentId, range, content)
updateComment(s, cellId) ==
    addUpdate(s, SimpleMsg("UpdateComment", s.globalVersion, s.localVersion, cellId))

\* setCellOutput(cellId, output)
setCellOutput(s, cellId) ==
    addUpdate(s, SimpleMsg("SetCellOutput", s.globalVersion, s.localVersion, cellId))

\* updateConfig(config)
updateConfig(s) ==
    LET s1 == Increment(s)
    IN  addUpdate(s1, SimpleMsg("UpdateConfig", s1.globalVersion, s1.localVersion, Undefined))

\* rebaseUpdate discarding up to the handler's own localVersion (mutant for C2).
rebaseUpdateDiscardsAll(s, update) ==
    LET s1 == [s EXCEPT !.globalVersion = update.globalVersion]
    IN  IF update.localVersion < s1.localVersion
        THEN LET prevUpdates == BufferRange(s1.edits, update.localVersion, s1.localVersion)
             IN  [s1 EXCEPT !.edits = BufferDiscard(s1.edits, s1.localVersion),
                            !.handed = prevUpdates,
                            !.out = Rebase(update, prevUpdates)]
        ELSE [s1 EXCEPT !.out = update]

\* rebaseUpdate adopting the globalVersion only when it rebases (mutant for C3).
rebaseUpdateAdoptsWhenRebasing(s, update) ==
    IF update.localVersion < s.localVersion
    THEN LET prevUpdates == BufferRange(s.edits, update.localVersion, s.localVersion)
         IN  [s EXCEPT !.globalVersion = update.globalVersion,
                       !.edits = BufferDiscard(s.edits, update.localVersion),
                       !.handed = prevUpdates,
                       !.out = Rebase(update, prevUpdates)]
    ELSE [s EXCEPT !.out = update]

\* rebaseUpdate returning the update as it came (mutant for C6).
rebaseUpdateUntransformed(s, update) ==
    LET s1 == [s EXCEPT !.globalVersion = update.globalVersion]
    IN  IF update.localVersion < s1.localVersion
        THEN [s1 EXCEPT !.edits = BufferDiscard(s1.edits, update.localVersion),
                        !.out = update]
        ELSE [s1 EXCEPT !.out = update]

\* rebaseUpdate handing the whole buffer to the transform (mutant for C22).
rebaseUpdateHandsAll(s, update) ==
    LET s1 == [s EXCEPT !.globalVersion = update.globalVersion]
    IN  IF update.localVersion < s1.localVersion
        THEN LET prevUpdates == BufferRange(s1.edits, InitialVersion - 1, s1.localVersion)
             IN  [s1 EXCEPT !.edits = BufferDiscard(s1.edits, update.localVersion),
                            !.handed = prevUpdates,
                            !.out = Rebase(update, prevUpdates)]
        ELSE [s1 EXCEPT !.out = update]

\* rebaseUpdate rebasing also when the reference equals localVersion (mutant for C30).
rebaseUpdateAtOrBelow(s, update) ==
    LET s1 == [s EXCEPT !.globalVersion = update.globalVersion]
    IN  IF update.localVersion <= s1.localVersion
        THEN LET prevUpdates == BufferRange(s1.edits, update.localVersion, s1.localVersion)
             IN  [s1 EXCEPT !.edits = BufferDiscard(s1.edits, update.localVersion),
                            !.handed = prevUpdates,
                            !.out = Rebase(update, prevUpdates)]
        ELSE [s1 EXCEPT !.out = update]

\* rebaseUpdate(update): the returned update is s.out, and s.handed the prevUpdates
\* it passed to NotebookUpdate.rebase.
rebaseUpdate(s, update) ==
    LET s1 == [s EXCEPT !.globalVersion = update.globalVersion]
    IN  IF update.localVersion < s1.localVersion
        THEN LET prevUpdates == BufferRange(s1.edits, update.localVersion, s1.localVersion)
             IN  [s1 EXCEPT !.edits = BufferDiscard(s1.edits, update.localVersion),
                            !.handed = prevUpdates,
                            !.out = Rebase(update, prevUpdates)]
        ELSE [s1 EXCEPT !.out = update]

(* ------------------------- NotebookStateHandler ------------------------ *)
\* CellMetadata, reduced to what the handlers read: hideSource or not; "undefined"
\* is the metadata of an object that has no metadata field.
Metadatas == {"shown", "hideSource"}

\* A CellState. `bare` marks the object setCellLanguage builds from a missing cell
\* ({...undefined, language, ...}): it has no id, content, metadata, selected or
\* editing field until selectCell's mapValues gives it the last two.
Cell(id, language, content, metadata) ==
    [id |-> id, language |-> language, content |-> content, metadata |-> metadata,
     output |-> <<>>, results |-> <<>>, compileErrors |-> <<>>, runtimeError |-> "undefined",
     error |-> FALSE, running |-> FALSE, queued |-> FALSE,
     selected |-> FALSE, editing |-> FALSE, bare |-> FALSE]

\* The object built for language "text": the fields the updater writes are there,
\* the others are absent (running and queued read as undefined, which is falsy).
BareCell(language) ==
    [id |-> Undefined, language |-> language, content |-> "undefined",
     metadata |-> "undefined",
     output |-> <<>>, results |-> <<>>, compileErrors |-> <<>>, runtimeError |-> "undefined",
     error |-> FALSE, running |-> FALSE, queued |-> FALSE,
     selected |-> FALSE, editing |-> FALSE, bare |-> TRUE]

\* deepEquals(old[k], new[k]) fails
Changed(old, new, k) ==
    \/ (k \in DOMAIN old) # (k \in DOMAIN new)
    \/ k \in DOMAIN old /\ k \in DOMAIN new /\ old[k] # new[k]

\* watchCell's observers on one cell, for one registration: the language view
\* publishes SetCellLanguage, the metadata view calls updateCell. They sit behind
\* an IgnoreServerUpdatesWrapper, which drops updates whose source is the server.
watchCell(s, old, new, k) ==
    IF k \notin DOMAIN old \/ k \notin DOMAIN new THEN s
    ELSE LET s1 == IF old[k].language # new[k].language
                   THEN addUpdate(s, SetCellLanguageMsg(s.globalVersion, s.localVersion,
                                                        k, new[k].language))
                   ELSE s
         IN  IF old[k].metadata # new[k].metadata
             THEN updateCell(s1, k, <<>>, new[k].metadata)
             ELSE s1

RECURSIVE watchCellTimes(_, _, _, _, _)
watchCellTimes(s, old, new, k, n) ==
    IF n = 0 THEN s ELSE watchCellTimes(watchCell(s, old, new, k), old, new, k, n - 1)

RECURSIVE NotifyCellWatchers(_, _, _, _)
NotifyCellWatchers(s, old, new, k) ==
    IF k > MaxCellId THEN s
    ELSE NotifyCellWatchers(watchCellTimes(s, old, new, k, s.watchObs[k]), old, new, k + 1)

\* The observer of lines 84-90: an activeCellWatcher fires when its cell changed
\* and is not selected; it removes itself and resets activeCellId.
Deselected(s, old, new) ==
    {k \in s.activeWatchers : Changed(old, new, k) /\ k \in DOMAIN new /\ ~new[k].selected}

\* The cellOrder observer of the update handler: watch added cells, forget removed ones.
cellOrderObserver(s, prevOrder, newOrder) ==
    [s EXCEPT !.cellWatchers = (s.cellWatchers \ Range(Removed(prevOrder, newOrder)))
                                  \cup Range(Added(prevOrder, newOrder)),
              !.watchObs = [k \in CellIds |->
                               IF k \in Range(Added(prevOrder, newOrder))
                               THEN s.watchObs[k] + 1 ELSE s.watchObs[k]]]

\* The activeCellId observer of lines 81-92: a truthy id gets a watcher on its cell.
activeCellIdObserver(s, cellId) ==
    IF cellId # Undefined /\ cellId # 0 /\ cellId \in CellIds
    THEN [s EXCEPT !.activeWatchers = s.activeWatchers \cup {cellId}]
    ELSE s

\* equalsByKey(cell, template, ["language", "content", "metadata"])
Matches(cell, tmpl) ==
    cell.language = tmpl.language /\ cell.content = tmpl.content /\ cell.metadata = tmpl.metadata

\* The observer insertCell registers on the cellOrder view (lines 205-215): the value
\* it hands to resolve, Undefined when it finds no cell.
InsertedCellId(cs, order, o) ==
    LET tail == Slice(order, IndexOf(order, o.prev))
        hits == {i \in 1..Len(tail) :
                    tail[i] > o.prev /\ tail[i] \in DOMAIN cs /\ Matches(cs[tail[i]], o)}
    IN  IF hits = {} THEN Undefined
        ELSE tail[CHOOSE i \in hits : \A j \in hits : i <= j]

\* The cellOrder view notifies the observers that are registered on it; nothing in
\* lines 203-216 removes one. A promise keeps the first value it is resolved with;
\* `late` records that the observer was called after its promise was resolved.
insertCellObservers(s) ==
    [s EXCEPT !.insertObs = [i \in 1..Len(s.insertObs) |->
        IF ~s.insertObs[i].registered THEN s.insertObs[i]
        ELSE IF s.insertObs[i].resolved # Undefined THEN [s.insertObs[i] EXCEPT !.late = TRUE]
        ELSE [s.insertObs[i] EXCEPT
                 !.resolved = InsertedCellId(s.cells, s.cellOrder, s.insertObs[i])]]]

\* The boolean fields waitForCellChange can wait for.
TargetStates == {"queued", "running", "error"}

\* maybeChanged && maybeChanged[targetState]
HasReached(cs, id, targetState) ==
    /\ id \in DOMAIN cs
    /\ CASE targetState = "queued" -> cs[id].queued
         [] targetState = "running" -> cs[id].running
         [] OTHER -> cs[id].error

\* waitForCellChange's observer, without its removeObserver (mutant for C15).
waiterObserverStays(w, cs) ==
    IF w.registered /\ HasReached(cs, w.id, w.targetState)
    THEN [w EXCEPT !.resolved = w.resolved + 1]
    ELSE w

\* The observer of lines 245-251, called with a new state: when the cell has the
\* target flag it removes itself and resolves the promise.
waiterObserver(w, cs) ==
    IF w.registered /\ HasReached(cs, w.id, w.targetState)
    THEN [w EXCEPT !.registered = FALSE, !.resolved = w.resolved + 1]
    ELSE w

\* One dispatch of a changed notebook state to the observers of the handler.
NotifyObservers(s) ==
    [s EXCEPT !.waiters = [i \in 1..Len(s.waiters) |-> waiterObserver(s.waiters[i], s.cells)],
              !.observed = s.observed \cup {s.cells}]

\* StateHandler.update: store the new state when it differs and notify the observers
\* in subscription order: the cells lens (line 78) with the cell views under it, the
\* update handler's cellOrder observer (line 288), the activeCellId observer (line 81),
\* then the observers registered later. An update made by an observer runs when the
\* dispatch that called it is over.
update(s, newCells, newOrder, newActive, fromServer) ==
    IF newCells = s.cells /\ newOrder = s.cellOrder /\ newActive = s.activeCellId THEN s
    ELSE
    LET s0 == [s EXCEPT !.cells = newCells, !.cellOrder = newOrder, !.activeCellId = newActive]
        s1 == IF fromServer THEN s0 ELSE NotifyCellWatchers(s0, s.cells, newCells, 0)
        fired == Deselected(s, s.cells, newCells)
        s2 == [s1 EXCEPT !.activeWatchers = s1.activeWatchers \ fired]
        s3 == IF newOrder # s.cellOrder THEN cellOrderObserver(s2, s.cellOrder, newOrder) ELSE s2
        s4 == IF newActive # s.activeCellId THEN activeCellIdObserver(s3, newActive) ELSE s3
        s5 == IF newOrder # s.cellOrder THEN insertCellObservers(s4) ELSE s4
        s6 == NotifyObservers(s5)
    IN  IF fired # {} /\ s6.activeCellId # Undefined
        THEN NotifyObservers([s6 EXCEPT !.activeCellId = Undefined])
        ELSE s6

\* The config observer comparing the whole NBConfig (mutant for C16).
configObserverWhole(s, current, prev) ==
    IF current # prev THEN updateConfig(s) ELSE s

\* The config observer of lines 282-286.
configObserver(s, current, prev) ==
    IF current.config # prev.config THEN updateConfig(s) ELSE s

\* StateHandler.update on the config field; the config observer sits behind an
\* IgnoreServerUpdatesWrapper.
updateConfigState(s, newConfig, fromServer) ==
    IF newConfig = s.config THEN s
    ELSE LET s0 == [s EXCEPT !.config = newConfig]
             s1 == IF fromServer THEN s0 ELSE configObserver(s0, newConfig, s.config)
         IN  NotifyObservers(s1)

\* waitForCellChange(id, targetState): registers the observer, returns the promise.
waitForCellChange(s, id, targetState) ==
    [s EXCEPT !.waiters = Append(s.waiters,
        [id |-> id, targetState |-> targetState, registered |-> TRUE, resolved |-> 0])]

\* cells[id]?.metadata.hideSource
HideSource(cs, id) == id \in DOMAIN cs /\ cs[id].metadata = "hideSource"

\* while (prevIdx > -1 && hidden(id)) { --prevIdx; id = cellOrder[prevIdx] }
RECURSIVE SkipAbove(_, _, _)
SkipAbove(cs, order, prevIdx) ==
    IF prevIdx > -1 /\ HideSource(cs, At(order, prevIdx))
    THEN SkipAbove(cs, order, prevIdx - 1)
    ELSE At(order, prevIdx)

\* The loop below stopping at the first hidden cell it steps on (mutant for C9).
RECURSIVE SkipBelowOnce(_, _, _)
SkipBelowOnce(cs, order, nextIdx) ==
    IF nextIdx < Len(order) /\ HideSource(cs, At(order, nextIdx))
    THEN At(order, nextIdx + 1)
    ELSE At(order, nextIdx)

\* while (nextIdx < cellOrder.length && hidden(id)) { ++nextIdx; id = cellOrder[nextIdx] }
RECURSIVE SkipBelow(_, _, _)
SkipBelow(cs, order, nextIdx) ==
    IF nextIdx < Len(order) /\ HideSource(cs, At(order, nextIdx))
    THEN SkipBelow(cs, order, nextIdx + 1)
    ELSE At(order, nextIdx)

\* The id selectCell resolves (lines 136-159).
ResolveSelected(cs, order, selected, relative, skipHiddenCode) ==
    LET anchorIdx == IndexOf(order, selected)
        id == IF selected = Undefined THEN Undefined
              ELSE IF relative = "above"
                   THEN (IF skipHiddenCode THEN SkipAbove(cs, order, anchorIdx - 1)
                         ELSE At(order, anchorIdx - 1))
              ELSE IF relative = "below"
                   THEN (IF skipHiddenCode THEN SkipBelow(cs, order, anchorIdx + 1)
                         ELSE At(order, anchorIdx + 1))
              ELSE selected
    IN  IF id # Undefined THEN id ELSE (IF selected = -1 THEN 0 ELSE selected)

\* mapValues building each cell anew, without the spread of the old cell (mutant
\* for C31).
SelectCellsWithoutSpread(cs, id, editing) ==
    [k \in DOMAIN cs |-> [Cell(cs[k].id, "", "", "undefined")
                              EXCEPT !.selected = (cs[k].id = id),
                                     !.editing = (cs[k].id = id /\ editing)]]

\* mapValues(s.cells, cell => ({...cell, selected, editing}))
SelectCells(cs, id, editing) ==
    [k \in DOMAIN cs |-> [cs[k] EXCEPT !.selected = (cs[k].id = id),
                                       !.editing = (cs[k].id = id /\ editing),
                                       !.bare = FALSE]]

\* selectCell(selected, {relative, skipHiddenCode, editing})
selectCell(s, selected, relative, skipHiddenCode, editing) ==
    LET id == ResolveSelected(s.cells, s.cellOrder, selected, relative, skipHiddenCode)
        s1 == update(s, SelectCells(s.cells, id, editing), s.cellOrder, id, FALSE)
    IN  [s1 EXCEPT !.ret = id]

\* cellOrder.reduce((acc, cellId) => acc > cellId ? acc : cellId, -1)
RECURSIVE MaxId(_)
MaxId(order) ==
    IF order = <<>> THEN -1
    ELSE LET m == MaxId(SubSeq(order, 1, Len(order) - 1))
             x == order[Len(order)]
         IN  IF m > x THEN m ELSE x

\* insertCell taking the cell before the anchor as previous cell in both directions
\* (mutant for C11).
insertCellAlwaysBefore(s, direction, anchor) ==
    LET currentCellId ==
            IF anchor # Undefined THEN anchor
            ELSE IF s.activeCellId # Undefined THEN s.activeCellId
            ELSE IF direction = "above" THEN At(s.cellOrder, 0)
            ELSE At(s.cellOrder, Len(s.cellOrder) - 1)
    IN  IF currentCellId \notin DOMAIN s.cells
        THEN [s EXCEPT !.err = "TypeError"]
        ELSE
        LET a == s.cells[currentCellId]
            prevIdx == IndexOf(s.cellOrder, currentCellId) - 1
            maybePrevId == IF At(s.cellOrder, prevIdx) # Undefined
                           THEN At(s.cellOrder, prevIdx) ELSE NoPrev
            maxId == MaxId(s.cellOrder)
            s1 == uhInsertCell(s, maxId + 1, a.language, a.metadata, maybePrevId)
        IN  [s1 EXCEPT !.insertObs = Append(s1.insertObs,
                [cellId |-> maxId + 1, prev |-> maybePrevId, language |-> a.language,
                 content |-> "", metadata |-> a.metadata, resolved |-> Undefined,
                 registered |-> TRUE, late |-> FALSE])]

\* insertCell(direction, anchor): `anchor` is Undefined or the id of the cell the
\* caller passes as anchor object. The new message's content is ''.
insertCell(s, direction, anchor) ==
    LET currentCellId ==
            IF anchor # Undefined THEN anchor
            ELSE IF s.activeCellId # Undefined THEN s.activeCellId
            ELSE IF direction = "above" THEN At(s.cellOrder, 0)
            ELSE At(s.cellOrder, Len(s.cellOrder) - 1)
    IN  IF currentCellId \notin DOMAIN s.cells
        THEN [s EXCEPT !.err = "TypeError"]
        ELSE
        LET a == s.cells[currentCellId]
            anchorIdx == IndexOf(s.cellOrder, currentCellId)
            prevIdx == IF direction = "above" THEN anchorIdx - 1 ELSE anchorIdx
            maybePrevId == IF At(s.cellOrder, prevIdx) # Undefined
                           THEN At(s.cellOrder, prevIdx) ELSE NoPrev
            maxId == MaxId(s.cellOrder)
            s1 == uhInsertCell(s, maxId + 1, a.language, a.metadata, maybePrevId)
        IN  [s1 EXCEPT !.insertObs = Append(s1.insertObs,
                [cellId |-> maxId + 1, prev |-> maybePrevId, language |-> a.language,
                 content |-> "", metadata |-> a.metadata, resolved |-> Undefined,
                 registered |-> TRUE, late |-> FALSE])]

\* deleteCell that also takes the cell out of the local notebook (mutant for C13).
deleteCellLocally(s, id) ==
    LET target == IF id = Undefined THEN s.activeCellId ELSE id
        rest == DOMAIN s.cells \ {target}
        order == SelectSeq(s.cellOrder, LAMBDA k : k # target)
    IN  IF target # Undefined
        THEN update(uhDeleteCell(s, target), [k \in rest |-> s.cells[k]], order,
                    s.activeCellId, FALSE)
        ELSE s

\* deleteCell(id)
deleteCell(s, id) ==
    LET target == IF id = Undefined THEN s.activeCellId ELSE id
    IN  IF target # Undefined THEN uhDeleteCell(s, target) ELSE s

\* setCellLanguage(id, language): cellsHandler.update1(id, cell => ({...cell, language, ...}))
\* The updater of lines 230-239 applied to a cell.
WithLanguage(cell, language) ==
    IF language = "text"
    THEN [cell EXCEPT !.language = language, !.output = <<>>, !.results = <<>>,
                      !.error = FALSE, !.compileErrors = <<>>, !.runtimeError = "undefined"]
    ELSE [cell EXCEPT !.language = language]

\* setCellLanguage in two updates, the language first (mutant for C14).
setCellLanguageInTwo(s, id, language) ==
    IF id \notin DOMAIN s.cells THEN s
    ELSE LET s1 == update(s, [s.cells EXCEPT ![id].language = language], s.cellOrder,
                          s.activeCellId, FALSE)
         IN  update(s1, [s1.cells EXCEPT ![id] = WithLanguage(s1.cells[id], language)],
                    s1.cellOrder, s1.activeCellId, FALSE)

\* For a missing id the updater gets undefined: with "text" it reads no field of it
\* and a bare object is stored, otherwise reading cell.output throws.
setCellLanguage(s, id, language) ==
    IF id \notin DOMAIN s.cells /\ language # "text"
    THEN [s EXCEPT !.err = "TypeError"]
    ELSE
    LET cell == IF id \in DOMAIN s.cells THEN WithLanguage(s.cells[id], language)
                ELSE BareCell(language)
        newCells == [k \in DOMAIN s.cells \cup {id} |-> IF k = id THEN cell ELSE s.cells[k]]
    IN  update(s, newCells, s.cellOrder, s.activeCellId, FALSE)

(* ------------------------------ the calls ------------------------------ *)
NoCall == [op |-> "init", selected |-> Undefined, relative |-> "", skipHiddenCode |-> FALSE,
           editing |-> FALSE, language |-> "", targetState |-> "", fromServer |-> FALSE,
           update |-> NoMsg, ret |-> Undefined, out |-> NoMsg, handed |-> <<>>, err |-> ""]

Call(op) == [NoCall EXCEPT !.op = op]

\* The state after a call, and what the call returned or threw.
Commit(s, call) ==
    /\ s.localVersion <= MaxVersion
    /\ Len(s.published) <= MaxPublished
    /\ cells' = s.cells
    /\ cellOrder' = s.cellOrder
    /\ activeCellId' = s.activeCellId
    /\ activeWatchers' = s.activeWatchers
    /\ cellWatchers' = s.cellWatchers
    /\ watchObs' = s.watchObs
    /\ insertObs' = s.insertObs
    /\ globalVersion' = s.globalVersion
    /\ localVersion' = s.localVersion
    /\ edits' = s.edits
    /\ published' = s.published
    /\ config' = s.config
    /\ waiters' = s.waiters
    /\ observed' = s.observed
    /\ UNCHANGED algebraVars
    /\ last' = [call EXCEPT !.ret = s.ret, !.out = s.out, !.handed = s.handed, !.err = s.err]

(* ------------------------------- Init ---------------------------------- *)
InitOrders == {<<>>, <<1, 2>>, <<2, 0, 1>>}

InitHandler ==
    /\ activeWatchers = {}
    /\ cellWatchers = {}
    /\ watchObs = [k \in CellIds |-> 0]
    /\ insertObs = <<>>
    /\ edits = <<>>
    /\ published = <<>>
    /\ config = [open |-> FALSE, config |-> "c0"]
    /\ waiters = <<>>
    /\ observed = {}
    /\ last = NoCall

\* No update applied yet.
NoApplied == [op |-> "init", update |-> NoUpdate, key |-> "", fieldUpdates |-> <<>>,
              result |-> "", inst |-> NoUpdate, results |-> <<>>,
              addedAt |-> Undefined, removedAt |-> Undefined, err |-> "",
              identical |-> FALSE, removedValues |-> <<>>, addedValues |-> <<>>,
              fieldResults |-> Absent, children |-> <<>>]

InitAlgebra ==
    /\ array = <<>>
    /\ prevArray = <<>>
    /\ held = Obj(NoFields, {})
    /\ applied = NoApplied

InitText ==
    /\ clientContent = <<>>
    /\ serverContent = <<>>
    /\ baseContent = <<>>

\* new NotebookStateHandler(state): no cell selected, no active cell; the update
\* handler starts at (-1, -1) with an empty buffer and watches no cell yet.
Init ==
    /\ \E order \in InitOrders, hidden \in SUBSET CellIds :
          /\ hidden \subseteq Range(order)
          /\ cellOrder = order
          /\ cells = [k \in Range(order) |->
                        Cell(k, "scala", "", IF k \in hidden THEN "hideSource" ELSE "shown")]
    /\ activeCellId = Undefined
    /\ globalVersion = InitialVersion
    /\ localVersion = InitialVersion
    /\ InitHandler
    /\ InitAlgebra
    /\ InitText

(* ------------------------------ actions -------------------------------- *)
SelectArgs == CellIds \cup {Undefined, -1}

SelectCell ==
    \E selected \in SelectArgs, relative \in {"", "above", "below"},
       skipHiddenCode \in BOOLEAN, editing \in BOOLEAN :
        /\ relative = "" => ~skipHiddenCode
        /\ Commit(selectCell(Sys, selected, relative, skipHiddenCode, editing),
                  [Call("selectCell") EXCEPT !.selected = selected, !.relative = relative,
                                             !.skipHiddenCode = skipHiddenCode,
                                             !.editing = editing])
        /\ UNCHANGED textVars

InsertCellFrom(anchors) ==
    \E direction \in {"above", "below"}, anchor \in anchors :
        /\ anchor # Undefined => anchor \in Range(cellOrder)
        /\ Commit(insertCell(Sys, direction, anchor),
                  [Call("insertCell") EXCEPT !.selected = anchor, !.relative = direction])
        /\ UNCHANGED textVars

DeleteCellOf(ids) ==
    \E id \in ids :
        /\ Commit(deleteCell(Sys, id), [Call("deleteCell") EXCEPT !.selected = id])
        /\ UNCHANGED textVars

SetCellLanguageOf(ids) ==
    \E id \in ids, language \in Languages :
        /\ Commit(setCellLanguage(Sys, id, language),
                  [Call("setCellLanguage") EXCEPT !.selected = id, !.language = language])
        /\ UNCHANGED textVars

\* The order with `id` put after `prev` (at the front when prev is not in it).
InsertAfter(order, id, prev) ==
    LET i == IndexOf(order, prev) + 1
    IN  SubSeq(order, 1, i) \o <<id>> \o SubSeq(order, i + 1, Len(order))

\* An InsertCell of the authority applied to the notebook: the new cell and its
\* place in cellOrder arrive in one update whose source is the server.
ServerInsertCellOf(ids, languages, metadatas) ==
    \E id \in ids \ Range(cellOrder), prev \in Range(cellOrder) \cup {NoPrev},
       language \in languages, metadata \in metadatas :
        /\ Commit(update(Sys,
                         [k \in DOMAIN cells \cup {id} |->
                             IF k = id THEN Cell(id, language, "", metadata) ELSE cells[k]],
                         InsertAfter(cellOrder, id, prev), activeCellId, TRUE),
                  [Call("serverInsertCell") EXCEPT !.selected = id])
        /\ UNCHANGED textVars

\* Calls of the update handler's own methods.
UhIds == {1}

CreateComment ==
    \E id \in UhIds : Commit(createComment(Sys, id), Call("createComment")) /\ UNCHANGED textVars

DeleteComment ==
    \E id \in UhIds : Commit(deleteComment(Sys, id), Call("deleteComment")) /\ UNCHANGED textVars

UpdateComment ==
    \E id \in UhIds : Commit(updateComment(Sys, id), Call("updateComment")) /\ UNCHANGED textVars

SetCellOutput ==
    \E id \in UhIds : Commit(setCellOutput(Sys, id), Call("setCellOutput")) /\ UNCHANGED textVars

UpdateCell ==
    \E id \in UhIds :
        Commit(updateCell(Sys, id, <<>>, "shown"), Call("updateCell")) /\ UNCHANGED textVars

UpdateConfig ==
    Commit(updateConfig(Sys), Call("updateConfig")) /\ UNCHANGED textVars

Versions == InitialVersion..MaxVersion
GlobalVersions == InitialVersion..MaxGlobal

\* addUpdate called with a message carrying any localVersion.
AddUpdate ==
    \E lv \in Versions :
        LET u == SimpleMsg("SetCellOutput", globalVersion, lv, 1)
        IN  Commit(addUpdate(Sys, u), [Call("addUpdate") EXCEPT !.update = u])
            /\ UNCHANGED textVars

\* An authoritative message arrives.
Incoming == {DeleteCellMsg(gv, lv, 1) : gv \in GlobalVersions, lv \in Versions}

RebaseUpdate ==
    \E u \in Incoming :
        /\ Commit(rebaseUpdate(Sys, u), [Call("rebaseUpdate") EXCEPT !.update = u])
        /\ UNCHANGED textVars

\* The notebook under selection and language changes.
Next ==
    \/ SelectCell
    \/ SetCellLanguageOf(CellIds)

Spec == Init /\ [][Next]_vars

\* Selection alone: any order of any cells, any of them hiding its source, and
\* any sequence of selectCell calls.
InitSelect ==
    /\ \E ids \in SUBSET CellIds, hidden \in SUBSET CellIds :
          /\ hidden \subseteq ids
          /\ \E order \in [1..Cardinality(ids) -> ids] :
                /\ Range(order) = ids
                /\ cellOrder = order
          /\ cells = [k \in ids |->
                        Cell(k, "scala", "", IF k \in hidden THEN "hideSource" ELSE "shown")]
    /\ activeCellId = Undefined
    /\ globalVersion = InitialVersion
    /\ localVersion = InitialVersion
    /\ InitHandler
    /\ InitAlgebra
    /\ InitText

NextSelect == SelectCell

SpecSelect == InitSelect /\ [][NextSelect]_vars

\* The update handler: every method that publishes, addUpdate, rebaseUpdate, and
\* one watched cell whose language the notebook changes.
InitVersions ==
    /\ cellOrder = <<>>
    /\ cells = <<>>
    /\ activeCellId = Undefined
    /\ globalVersion = InitialVersion
    /\ localVersion = InitialVersion
    /\ InitHandler
    /\ InitAlgebra
    /\ InitText

NextVersions ==
    \/ ServerInsertCellOf(UhIds, {"scala"}, {"shown"})
    \/ SetCellLanguageOf(UhIds)
    \/ InsertCellFrom({Undefined})
    \/ DeleteCellOf(UhIds)
    \/ CreateComment
    \/ DeleteComment
    \/ UpdateComment
    \/ SetCellOutput
    \/ UpdateCell
    \/ UpdateConfig
    \/ AddUpdate
    \/ RebaseUpdate

SpecVersions == InitVersions /\ [][NextVersions]_vars

(* ---------------------- insertion and deletion ------------------------- *)
\* A notebook of up to MaxCellId cells in any order, each scala or text, shown or
\* hiding its source, with or without an active (selected) cell; insertCell and
\* deleteCell with every anchor, and the authority's InsertCell applied to it.
InitIds == 0..(MaxCellId - 1)

InitInsert ==
    /\ \E ids \in SUBSET InitIds, hidden \in SUBSET InitIds, text \in SUBSET InitIds,
          active \in InitIds \cup {Undefined} :
          /\ hidden \subseteq ids
          /\ text \subseteq ids
          /\ active \in ids \cup {Undefined}
          /\ \E order \in [1..Cardinality(ids) -> ids] :
                /\ Range(order) = ids
                /\ cellOrder = order
          /\ cells = [k \in ids |->
                        [Cell(k, IF k \in text THEN "text" ELSE "scala", "",
                              IF k \in hidden THEN "hideSource" ELSE "shown")
                            EXCEPT !.selected = (k = active)]]
          /\ activeCellId = active
    /\ globalVersion = InitialVersion
    /\ localVersion = InitialVersion
    /\ InitHandler
    /\ InitAlgebra
    /\ InitText

NextInsert ==
    \/ InsertCellFrom(CellIds \cup {Undefined})
    \/ DeleteCellOf(CellIds \cup {Undefined})
    \/ ServerInsertCellOf(CellIds, {"scala"}, {"shown"})

SpecInsert == InitInsert /\ [][NextInsert]_vars

(* ----------------------- watchers of removed cells --------------------- *)
\* How often one cell id is put into cellOrder.
MaxWatches == 2

\* A DeleteCell of the authority applied to the notebook: the cell leaves cells and
\* cellOrder in one update whose source is the server.
ServerDeleteCellOf(ids) ==
    \E id \in ids \cap Range(cellOrder) :
        /\ Commit(update(Sys, [k \in DOMAIN cells \ {id} |-> cells[k]],
                         SelectSeq(cellOrder, LAMBDA k : k # id), activeCellId, TRUE),
                  [Call("serverDeleteCell") EXCEPT !.selected = id])
        /\ UNCHANGED textVars

\* An empty notebook; the authority inserts and deletes the cells 1 and 2, and their
\* language is set locally.
WatchIds == {1, 2}

NextWatch ==
    \/ /\ ServerInsertCellOf(WatchIds, {"scala"}, {"shown"})
       /\ \A k \in WatchIds : watchObs'[k] <= MaxWatches
    \/ ServerDeleteCellOf(WatchIds)
    \/ SetCellLanguageOf(WatchIds)

SpecWatch == InitVersions /\ [][NextWatch]_vars

(* ------------------------- the active cell's watcher ------------------- *)
\* A notebook holding some of the cells 1 and 2; cells are selected, and the
\* authority inserts the cells that are missing.
InitActive ==
    /\ \E ids \in SUBSET WatchIds :
          /\ cellOrder = SelectSeq(<<1, 2>>, LAMBDA k : k \in ids)
          /\ cells = [k \in ids |-> Cell(k, "scala", "", "shown")]
    /\ activeCellId = Undefined
    /\ globalVersion = InitialVersion
    /\ localVersion = InitialVersion
    /\ InitHandler
    /\ InitAlgebra
    /\ InitText

NextActive ==
    \/ SelectCell
    \/ ServerInsertCellOf(WatchIds, {"scala"}, {"shown"})

SpecActive == InitActive /\ [][NextActive]_vars

(* ------------------------ language of a cell --------------------------- *)
\* What a cell may hold before its language changes: each of the five fields the
\* updater clears, set or not.
Dirty(cell, fields) ==
    [cell EXCEPT !.output = IF "output" \in fields THEN <<"o">> ELSE <<>>,
                 !.results = IF "results" \in fields THEN <<"r">> ELSE <<>>,
                 !.compileErrors = IF "compileErrors" \in fields THEN <<"c">> ELSE <<>>,
                 !.runtimeError = IF "runtimeError" \in fields THEN "e" ELSE "undefined",
                 !.error = "error" \in fields]

ClearedFields == {"output", "results", "compileErrors", "runtimeError", "error"}

InitLanguage ==
    /\ \E n \in 0..MaxCellId, f \in [1..MaxCellId -> SUBSET ClearedFields] :
          /\ \A k \in (n + 1)..MaxCellId : f[k] = {}
          /\ cellOrder = [i \in 1..n |-> i]
          /\ cells = [k \in 1..n |-> Dirty(Cell(k, "scala", "", "shown"), f[k])]
    /\ activeCellId = Undefined
    /\ globalVersion = InitialVersion
    /\ localVersion = InitialVersion
    /\ InitHandler
    /\ InitAlgebra
    /\ InitText

NextLanguage == SetCellLanguageOf(CellIds)

SpecLanguage == InitLanguage /\ [][NextLanguage]_vars

(* ------------------------- waitForCellChange --------------------------- *)
MaxWaiters == 2

WaitForCellChange ==
    \E id \in UhIds \cup {0}, targetState \in TargetStates :
        /\ Len(waiters) < MaxWaiters
        /\ Commit(waitForCellChange(Sys, id, targetState),
                  [Call("waitForCellChange") EXCEPT !.selected = id,
                                                    !.targetState = targetState])
        /\ UNCHANGED textVars

\* The authority's report on a cell (queued, running, error) applied to the notebook.
ServerSetCellState ==
    \E id \in DOMAIN cells, targetState \in TargetStates, value \in BOOLEAN :
        /\ Commit(update(Sys,
                         [cells EXCEPT ![id] =
                             CASE targetState = "queued" -> [@ EXCEPT !.queued = value]
                               [] targetState = "running" -> [@ EXCEPT !.running = value]
                               [] OTHER -> [@ EXCEPT !.error = value]],
                         cellOrder, activeCellId, TRUE),
                  [Call("serverSetCellState") EXCEPT !.selected = id,
                                                     !.targetState = targetState,
                                                     !.fromServer = TRUE])
        /\ UNCHANGED textVars

InitWait ==
    /\ \E n \in 1..MaxCellId :
          /\ cellOrder = [i \in 1..n |-> i]
          /\ cells = [k \in 1..n |-> Cell(k, "scala", "", "shown")]
    /\ activeCellId = Undefined
    /\ globalVersion = InitialVersion
    /\ localVersion = InitialVersion
    /\ InitHandler
    /\ InitAlgebra
    /\ InitText

NextWait ==
    \/ WaitForCellChange
    \/ ServerSetCellState
    \/ SetCellLanguageOf(UhIds)

SpecWait == InitWait /\ [][NextWait]_vars

(* ------------------------------ config --------------------------------- *)
Configs == {"c0", "c1"}

\* The notebook's config replaced, by the user or by a message of the authority.
SetConfig ==
    \E open \in BOOLEAN, c \in Configs, fromServer \in BOOLEAN :
        /\ Commit(updateConfigState(Sys, [open |-> open, config |-> c], fromServer),
                  [Call("setConfig") EXCEPT !.fromServer = fromServer])
        /\ UNCHANGED textVars

NextConfig ==
    \/ SetConfig
    \/ UpdateConfig
    \/ RebaseUpdate

SpecConfig == InitVersions /\ [][NextConfig]_vars

(* ----------------------- applying array updates ------------------------ *)
\* A handler that is not used: the updates are applied to a value of their own.
InitIdle ==
    /\ cellOrder = <<>>
    /\ cells = <<>>
    /\ activeCellId = Undefined
    /\ globalVersion = InitialVersion
    /\ localVersion = InitialVersion
    /\ InitHandler
    /\ InitText

AppliedToArray(op, u, r) ==
    [NoApplied EXCEPT !.op = op, !.update = u, !.result = r.update, !.inst = r.inst,
                      !.addedAt = r.addedAt, !.removedAt = r.removedAt, !.err = r.err]

\* new InsertValue(v, idx).applyMutate(array), idx in [0, len] or omitted
ApplyInsertValue ==
    \E v \in Elems, idx \in (0..Len(array)) \cup {Undefined} :
        LET u == InsertValue(v, idx)
            r == insertValueApplyMutate(u, array)
        IN  /\ Len(array) <= MaxLen
            /\ array' = r.arr
            /\ prevArray' = array
            /\ applied' = AppliedToArray("InsertValue", u, r)
            /\ UNCHANGED <<held, handlerVars>>

\* new RemoveValue(v, idx).applyMutate(array)
ApplyRemoveValue ==
    \E v \in Elems, idx \in 0..MaxLen :
        LET u == RemoveValue(v, idx)
            r == removeValueApplyMutate(u, array)
        IN  /\ array' = r.arr
            /\ prevArray' = array
            /\ applied' = AppliedToArray("RemoveValue", u, r)
            /\ UNCHANGED <<held, handlerVars>>

InitArray ==
    /\ array \in Arrays
    /\ prevArray = array
    /\ held = Obj(NoFields, {})
    /\ applied = NoApplied
    /\ InitIdle

NextArray ==
    \/ ApplyInsertValue
    \/ ApplyRemoveValue

SpecArray == InitArray /\ [][NextArray]_vars

(* ------------------- applying one update instance twice ---------------- *)
\* update.applyMutate(arr) for an update of an array
arrayApplyMutate(u, a) ==
    IF u.kind = "InsertValue" THEN insertValueApplyMutate(u, a)
    ELSE removeValueApplyMutate(u, a)

\* The instance that was just applied is applied again, to an array equal to the
\* one it was applied to first. `update` is the instance as it is before this call.
ApplyAgain ==
    /\ applied.op \in {"InsertValue", "RemoveValue"}
    /\ LET r == arrayApplyMutate(applied.inst, prevArray)
       IN  /\ array' = r.arr
           /\ prevArray' = prevArray
           /\ applied' = AppliedToArray("again", applied.inst, r)
           /\ UNCHANGED <<held, handlerVars>>

NextAgain ==
    \/ ApplyInsertValue
    \/ ApplyRemoveValue
    \/ ApplyAgain

SpecAgain == InitArray /\ [][NextAgain]_vars

(* ----------------------- applying object updates ----------------------- *)
\* The updates of one field of the object.
Children ==
    {NoUpdate}
        \cup {InsertValue(v, Undefined) : v \in Elems}
        \cup {RemoveValue(v, 0) : v \in Elems}

\* The fieldUpdates of an UpdateWith: updates for one or more keys, in the order
\* the keys were written.
FieldUpdates ==
    {<<[key |-> k, update |-> c]>> : k \in Keys, c \in Children}
        \cup {fu \in {<<[key |-> k1, update |-> c1], [key |-> k2, update |-> c2]>> :
                         k1 \in Keys, k2 \in Keys, c1 \in Children, c2 \in Children} :
                    fu[1].key # fu[2].key}

AppliedToObject(op, key, fieldUpdates, r) ==
    [NoApplied EXCEPT !.op = op, !.key = key, !.fieldUpdates = fieldUpdates,
                      !.result = r.update, !.results = r.results, !.err = r.err]

Short(obj) == \A k \in DOMAIN obj.val : Len(obj.val[k]) <= MaxLen

\* new UpdateKey(key, c).applyMutate(held)
ApplyUpdateKey ==
    \E key \in Keys, c \in Children :
        LET r == updateKeyApplyMutate(key, c, held)
        IN  /\ Short(r.obj)
            /\ held' = r.obj
            /\ applied' = AppliedToObject("UpdateKey", key, <<[key |-> key, update |-> c]>>, r)
            /\ UNCHANGED <<array, prevArray, handlerVars>>

\* new UpdateWith(fieldUpdates).applyMutate(held)
ApplyUpdateWith ==
    \E fieldUpdates \in FieldUpdates :
        LET r == updateWithApplyMutate(fieldUpdates, held)
        IN  /\ Short(r.obj)
            /\ held' = r.obj
            /\ applied' = AppliedToObject("UpdateWith", "", fieldUpdates, r)
            /\ UNCHANGED <<array, prevArray, handlerVars>>

InitObject ==
    /\ \E ks \in SUBSET Keys : \E val \in [ks -> {a \in Arrays : Len(a) <= 1}] :
          held = Obj(val, {})
    /\ array \in {a \in Arrays : Len(a) <= 1}
    /\ prevArray = array
    /\ applied = NoApplied
    /\ InitIdle

NextObject ==
    \/ ApplyUpdateKey
    \/ ApplyUpdateWith
    \/ ApplyRemoveValue

SpecObject == InitObject /\ [][NextObject]_vars

(* ----------------------- setting an object value ----------------------- *)
\* new SetValue(v).applyMutate(held): v is the held object itself, or another object.
\* `children` holds childResult(result, key) for every key of DiffKeys.
ApplySetValue ==
    \E newObj \in Objects, identical \in BOOLEAN :
        LET r == setValueApplyMutate(newObj, identical, held.val)
        IN  /\ identical => newObj = held.val
            /\ held' = Obj(r.newValue, {})
            /\ applied' = [NoApplied EXCEPT !.op = "SetValue", !.identical = identical,
                               !.result = r.update, !.removedValues = r.removedValues,
                               !.addedValues = r.addedValues,
                               !.fieldResults = r.fieldUpdates,
                               !.children = [k \in DiffKeys |-> childResult(r, k)]]
            /\ UNCHANGED <<array, prevArray, handlerVars>>

InitSetValue ==
    /\ \E val \in Objects : held = Obj(val, {})
    /\ array = <<>>
    /\ prevArray = <<>>
    /\ applied = NoApplied
    /\ InitIdle

NextSetValue == ApplySetValue

SpecSetValue == InitSetValue /\ [][NextSetValue]_vars

(* ----------------------- the rebase scenario --------------------------- *)
\* One cell's text, edited here and by the authority at once. The handler is
\* constructed at (0, 0); the local edit L is localVersion 1, the authority's edit R
\* was made against version 0.
EditedCell == CHOOSE k \in UhIds : TRUE

InitRebase ==
    /\ cellOrder = <<EditedCell>>
    /\ cells = [k \in {EditedCell} |-> Cell(k, "scala", "", "shown")]
    /\ activeCellId = Undefined
    /\ globalVersion = 0
    /\ localVersion = 0
    /\ InitHandler
    /\ InitAlgebra
    /\ baseContent \in Texts
    /\ clientContent = baseContent
    /\ serverContent = baseContent

\* The editor applies L to the cell's text and hands it to updateCell.
LocalEdit ==
    /\ last.op = "init"
    /\ \E e \in ContentEdits(clientContent) :
          /\ Fits(e, clientContent)
          /\ clientContent' = ApplyEdit(e, clientContent)
          /\ Commit(updateCell(Sys, EditedCell, <<e>>, "undefined"), Call("updateCell"))
    /\ UNCHANGED <<serverContent, baseContent>>

\* The authority applied R to the base text, then L rebased on R; it sends R,
\* which the client rebases on its buffered edits and applies.
ReceiveEdit ==
    /\ last.op = "updateCell"
    /\ \E r \in ContentEdits(baseContent) :
          /\ Fits(r, baseContent)
          /\ LET u == UpdateCellMsg(globalVersion + 1, 0, EditedCell, <<r>>, "undefined")
                 s == rebaseUpdate(Sys, u)
             IN  /\ Commit(s, [Call("rebaseUpdate") EXCEPT !.update = u])
                 /\ clientContent' = ApplyEdits(s.out.edits, clientContent)
                 /\ serverContent' = ApplyEdits(RebaseEdits(published[1].edits, <<r>>),
                                                ApplyEdit(r, baseContent))
    /\ UNCHANGED baseContent

NextRebase ==
    \/ LocalEdit
    \/ ReceiveEdit

SpecRebase == InitRebase /\ [][NextRebase]_vars

(* ------------------------------- claims -------------------------------- *)
\* The calls that build a message of their own and publish it.
Builders == {"insertCell", "deleteCell", "updateCell", "createComment", "deleteComment",
             "updateComment", "setCellOutput", "updateConfig", "setCellLanguage"}

\* C1: localVersion never decreases, and every message a local operation publishes
\* is preceded by an increment of localVersion by exactly 1: the first message of a
\* call carries the handler's former localVersion plus one, each further message of
\* the same call one more than the message before it.
C1_EachMessageOneHigher ==
    [][/\ localVersion' >= localVersion
       /\ last'.op \in Builders =>
            \A i \in (Len(published) + 1)..Len(published') :
                published'[i].localVersion =
                    (IF i = Len(published) + 1 THEN localVersion
                     ELSE published'[i - 1].localVersion) + 1]_vars

\* The entries a step appends to the buffer: one per message it published.
NewEntries ==
    [i \in 1..(Len(published') - Len(published)) |->
        [version |-> published'[Len(published) + i].localVersion,
         edit |-> published'[Len(published) + i]]]

\* C2: a published message enters the EditBuffer in the step that publishes it, and
\* an entry leaves the buffer only in a rebaseUpdate step whose message references a
\* localVersion at or above the entry's; every other entry stays, in order.
C2_BufferedUntilAcknowledged ==
    [][\E k \in 0..Len(edits) :
          /\ edits' = SubSeq(edits, k + 1, Len(edits)) \o NewEntries
          /\ k > 0 => /\ last'.op = "rebaseUpdate"
                      /\ \A i \in 1..k : edits[i].version <= last'.update.localVersion]_vars

\* C2 witness: a rebaseUpdate discarded an acknowledged entry and kept a later one.
C2_Witness ==
    /\ last.op = "rebaseUpdate"
    /\ Len(edits) > 0
    /\ Len(edits) < Len(published)
    /\ edits[1].version > last.update.localVersion

\* C3 as stated: globalVersion changes only in rebaseUpdate and never decreases,
\* whatever sequence of authoritative messages arrives.
C3_NeverDecreases ==
    [][/\ globalVersion' # globalVersion => last'.op = "rebaseUpdate"
       /\ globalVersion' >= globalVersion]_vars

\* C3 amended: globalVersion changes only in rebaseUpdate, which sets it to the
\* incoming message's globalVersion; so it does not decrease when that message
\* carries a globalVersion at or above the current one.
C3_AdoptsIncoming ==
    [][/\ globalVersion' # globalVersion => last'.op = "rebaseUpdate"
       /\ last'.op = "rebaseUpdate" => globalVersion' = last'.update.globalVersion
       /\ (last'.op = "rebaseUpdate" /\ last'.update.globalVersion >= globalVersion)
             => globalVersion' >= globalVersion]_vars

\* C3 witness: local messages were published and an authoritative message adopted.
C3_Witness ==
    /\ last.op = "rebaseUpdate"
    /\ globalVersion = last.update.globalVersion
    /\ globalVersion # InitialVersion
    /\ Len(published) > 0

\* C4: addUpdate with a message whose localVersion is not the handler's raises an
\* error and leaves the EditBuffer and the published list as they were.
C4_MismatchAborts ==
    [][(last'.op = "addUpdate" /\ last'.update.localVersion # localVersion)
          => (last'.err # "" /\ edits' = edits /\ published' = published)]_vars

\* C4 witness: a mismatching addUpdate was refused with messages already published.
C4_Witness ==
    /\ last.op = "addUpdate"
    /\ last.update.localVersion # localVersion
    /\ last.err = "Update Version mismatch"
    /\ Len(published) > 0
    /\ Len(edits) > 0

\* C5: rebaseUpdate with a message referencing a localVersion above the handler's
\* signals an unresolved conflict and changes neither globalVersion nor the buffer.
C5_UnknownVersionRefused ==
    [][(last'.op = "rebaseUpdate" /\ last'.update.localVersion > localVersion)
          => (last'.err # "" /\ globalVersion' = globalVersion /\ edits' = edits)]_vars

\* The two edits touch disjoint ranges: one range ends at or before the start of the
\* other, and they are not two insertions at one point (whose order no range decides).
Disjoint(l, r) ==
    /\ l.pos + l.len <= r.pos \/ r.pos + r.len <= l.pos
    /\ ~(l.len = 0 /\ r.len = 0 /\ l.pos = r.pos)

Selected == {k \in DOMAIN cells : cells[k].selected}

\* C7: after selectCell, activeCellId is the resolved id, and every cell is selected
\* exactly when its id is the resolved id and editing exactly when, moreover, editing
\* was requested.
C7_SelectsResolved ==
    last.op = "selectCell" =>
        /\ activeCellId = last.ret
        /\ \A k \in DOMAIN cells :
              /\ cells[k].selected = (k = last.ret)
              /\ cells[k].editing = (k = last.ret /\ last.editing)

\* C8: at most one cell is selected, and none when activeCellId is undefined.
C8_AtMostOneSelected ==
    /\ Cardinality(Selected) <= 1
    /\ activeCellId = Undefined => Selected = {}

\* The positions of the visible cells above, resp. below, position i of cellOrder.
VisibleAbove(i) == {j \in 1..(i - 1) : ~HideSource(cells, cellOrder[j])}
VisibleBelow(i) == {j \in (i + 1)..Len(cellOrder) : ~HideSource(cells, cellOrder[j])}

\* The nearest visible cell in the direction, the anchor when there is none.
Nearest(anchor, relative) ==
    LET i == CHOOSE j \in 1..Len(cellOrder) : cellOrder[j] = anchor
        above == VisibleAbove(i)
        below == VisibleBelow(i)
    IN  IF relative = "above"
        THEN (IF above = {} THEN anchor
              ELSE cellOrder[CHOOSE j \in above : \A m \in above : m <= j])
        ELSE (IF below = {} THEN anchor
              ELSE cellOrder[CHOOSE j \in below : \A m \in below : j <= m])

\* C9: selectCell(anchor, {relative, skipHiddenCode: true}) with the anchor in
\* cellOrder resolves to the nearest cell in that direction that does not hide its
\* source, and to the anchor, which is then selected, when there is none.
C9_SkipsHidden ==
    (/\ last.op = "selectCell"
     /\ last.skipHiddenCode
     /\ last.relative \in {"above", "below"}
     /\ last.selected \in Range(cellOrder))
        => /\ last.ret = Nearest(last.selected, last.relative)
           /\ cells[last.ret].selected

\* C9 witness: a hidden cell was stepped over, and a boundary sent the call back to
\* its anchor in another run.
C9_Witness ==
    /\ last.op = "selectCell"
    /\ last.skipHiddenCode
    /\ last.relative = "below"
    /\ last.selected \in Range(cellOrder)
    /\ last.ret # last.selected
    /\ last.ret # At(cellOrder, IndexOf(cellOrder, last.selected) + 1)
    /\ HideSource(cells, At(cellOrder, IndexOf(cellOrder, last.selected) + 1))

\* C10: cellOrder holds no id twice and holds exactly the keys of cells.
C10_OrderMatchesCells ==
    /\ \A i, j \in 1..Len(cellOrder) : cellOrder[i] = cellOrder[j] => i = j
    /\ Range(cellOrder) = DOMAIN cells

\* The anchor insertCell is to resolve: the argument, else the active cell, else the
\* first or the last cell of cellOrder.
AnchorOf(direction, anchor) ==
    IF anchor # Undefined THEN anchor
    ELSE IF activeCellId # Undefined THEN activeCellId
    ELSE IF direction = "above" THEN Head(cellOrder)
    ELSE cellOrder[Len(cellOrder)]

\* The position of id in cellOrder, 1-based.
PositionOf(id) == CHOOSE i \in 1..Len(cellOrder) : cellOrder[i] = id

\* The previous cell the InsertCell message is to name.
PreviousOf(direction, a) ==
    IF direction = "below" THEN a
    ELSE IF PositionOf(a) = 1 THEN -1
    ELSE cellOrder[PositionOf(a) - 1]

\* An insertCell call the claims cover: the notebook has cells and the anchor is one.
InsertCovered(direction, anchor) ==
    /\ cellOrder # <<>>
    /\ AnchorOf(direction, anchor) \in Range(cellOrder)
    /\ AnchorOf(direction, anchor) \in DOMAIN cells

\* C11: insertCell anchors on its argument, else on the active cell, else on the
\* first (above) or last (below) cell; it publishes exactly one InsertCell whose id is
\* the largest id of cellOrder plus one, whose language and metadata are the
\* anchor's, and whose previous cell is the anchor (below) or the cell before it,
\* -1 when there is none (above).
C11_InsertCellMessage ==
    [][(last'.op = "insertCell" /\ InsertCovered(last'.relative, last'.selected)) =>
         LET a == AnchorOf(last'.relative, last'.selected)
             newId == (CHOOSE m \in Range(cellOrder) : \A k \in Range(cellOrder) : k <= m) + 1
         IN  /\ last'.err = ""
             /\ Len(published') = Len(published) + 1
             /\ LET m == published'[Len(published')]
                IN  /\ m.kind = "InsertCell"
                    /\ m.id = newId
                    /\ m.language = cells[a].language
                    /\ m.metadata = cells[a].metadata
                    /\ m.prev = PreviousOf(last'.relative, a)]_vars

\* C11 witness: an insertion above the first cell, anchored on the active cell, in a
\* notebook whose largest id is not the last cell's.
C11_Witness ==
    /\ last.op = "insertCell"
    /\ last.selected = Undefined
    /\ last.relative = "above"
    /\ activeCellId # Undefined
    /\ Len(cellOrder) > 1
    /\ cellOrder[1] = activeCellId
    /\ cellOrder[Len(cellOrder)] < activeCellId
    /\ published # <<>>
    /\ published[Len(published)].kind = "InsertCell"
    /\ published[Len(published)].prev = -1
    /\ published[Len(published)].id = activeCellId + 1

\* The step applies the authority's InsertCell that answers the pending insertion o.
Answers(o) ==
    /\ last'.op = "serverInsertCell"
    /\ o.cellId \notin Range(cellOrder)
    /\ o.cellId \in DOMAIN cells'
    /\ cellOrder' = InsertAfter(cellOrder, o.cellId, o.prev)
    /\ Matches(cells'[o.cellId], o)

\* C12: the pending result of insertCell is resolved by the authoritative update
\* that puts the new cell into cellOrder, in both directions and at every anchor
\* position, and the value it is resolved with is the new cell's id, never the id of
\* a cell that was there before.
C12_ResolvesWithNewCell ==
    [][\A j \in 1..Len(insertObs) :
          /\ (insertObs[j].resolved = Undefined /\ Answers(insertObs[j]))
                => insertObs'[j].resolved = insertObs[j].cellId
          /\ insertObs'[j].resolved \in {Undefined, insertObs[j].cellId}]_vars

\* C13: insertCell and deleteCell leave cells, cellOrder and activeCellId as they
\* were; insertCell publishes one InsertCell, deleteCell one DeleteCell for its
\* argument or else the active cell, and nothing when there is neither.
C13_NoLocalMutation ==
    [][last'.op \in {"insertCell", "deleteCell"} =>
         /\ cells' = cells /\ cellOrder' = cellOrder /\ activeCellId' = activeCellId
         /\ (last'.op = "insertCell" /\ InsertCovered(last'.relative, last'.selected))
               => /\ Len(published') = Len(published) + 1
                  /\ published'[Len(published')].kind = "InsertCell"
                  /\ SubSeq(published', 1, Len(published)) = published
         /\ last'.op = "deleteCell" =>
               LET target == IF last'.selected # Undefined THEN last'.selected
                             ELSE activeCellId
               IN  IF target = Undefined
                   THEN published' = published /\ localVersion' = localVersion
                        /\ edits' = edits
                   ELSE published' = Append(published,
                            DeleteCellMsg(globalVersion, localVersion + 1, target))]_vars

\* C13 witness: deleteCell() deleted the active cell of a notebook that keeps it.
C13_Witness ==
    /\ last.op = "deleteCell"
    /\ last.selected = Undefined
    /\ activeCellId # Undefined
    /\ activeCellId \in Range(cellOrder)
    /\ published # <<>>
    /\ published[Len(published)].kind = "DeleteCell"
    /\ published[Len(published)].id = activeCellId

\* C14: setCellLanguage(id, "text") on an existing cell makes it, in one state
\* transition, a text cell with output, results and compileErrors empty, error
\* false and runtimeError undefined; every state handed to an observer during the
\* call holds the cell in that final form; another language leaves the five fields
\* as they were.
C14_ClearedAtOnce ==
    [][(/\ last'.op = "setCellLanguage"
        /\ last'.selected \in DOMAIN cells
        /\ ~cells[last'.selected].bare) =>
         LET id == last'.selected
             old == cells[id]
             new == cells'[id]
         IN  /\ new.language = last'.language
             /\ last'.language = "text" =>
                   /\ new.output = <<>> /\ new.results = <<>> /\ new.compileErrors = <<>>
                   /\ new.error = FALSE /\ new.runtimeError = "undefined"
             /\ last'.language # "text" =>
                   /\ new.output = old.output /\ new.results = old.results
                   /\ new.compileErrors = old.compileErrors
                   /\ new.error = old.error /\ new.runtimeError = old.runtimeError
             /\ \A seen \in observed' : seen[id] = new]_vars

\* C14 witness: a scala cell holding all five fields became a cleared text cell, and
\* the observers saw it.
C14_Witness ==
    /\ last.op = "setCellLanguage"
    /\ last.language = "text"
    /\ last.selected \in DOMAIN cells
    /\ observed # {}
    /\ cells[last.selected].language = "text"
    /\ cells[last.selected].output = <<>>
    /\ \E k \in DOMAIN cells : k # last.selected /\ cells[k].output # <<>> /\ cells[k].error

\* The notebook state changed in the step.
StateChanged ==
    cells' # cells \/ cellOrder' # cellOrder \/ activeCellId' # activeCellId \/ config' # config

\* C15: the promise of waitForCellChange(id, targetState) is resolved by the first
\* change of the notebook state after which cells[id][targetState] is true, and not
\* before; its observer is then removed, so the promise is resolved at most once; until
\* then the observer stays registered.
C15_ResolvedOnceAtFirstMatch ==
    [][\A j \in 1..Len(waiters) :
          LET w == waiters[j]
              hit == StateChanged /\ HasReached(cells', w.id, w.targetState)
          IN  /\ (w.registered /\ hit) =>
                    waiters'[j] = [w EXCEPT !.registered = FALSE, !.resolved = 1]
              /\ (w.registered /\ ~hit) => waiters'[j] = w
              /\ ~w.registered => (waiters'[j] = w /\ w.resolved = 1)]_vars

\* C15 witness: a promise was resolved, its cell lost the flag and got it again, and
\* another observer is still waiting.
C15_Witness ==
    /\ Len(waiters) = 2
    /\ ~waiters[1].registered
    /\ waiters[1].resolved = 1
    /\ waiters[2].registered
    /\ last.op = "serverSetCellState"
    /\ last.selected = waiters[1].id
    /\ last.targetState = waiters[1].targetState
    /\ HasReached(cells, waiters[1].id, waiters[1].targetState)

\* C16: a change of the config that comes from the server publishes nothing and
\* leaves localVersion alone; a local change publishes exactly one UpdateConfig
\* when config.config differs from what it was, and nothing when only `open` changed.
C16_ConfigPublishedWhenLocal ==
    [][last'.op = "setConfig" =>
         IF ~last'.fromServer /\ config'.config # config.config
         THEN /\ Len(published') = Len(published) + 1
              /\ SubSeq(published', 1, Len(published)) = published
              /\ published'[Len(published')].kind = "UpdateConfig"
              /\ localVersion' = localVersion + 1
         ELSE published' = published /\ localVersion' = localVersion]_vars

\* C16 witness: a local change of `open` alone, after a config already published.
C16_Witness ==
    /\ last.op = "setConfig"
    /\ ~last.fromServer
    /\ config.open
    /\ config.config = "c1"
    /\ Len(published) = 1
    /\ published[1].kind = "UpdateConfig"

\* C17: InsertValue(v, idx) with idx in [0, len] yields the array with v spliced in
\* at idx, the elements before idx as they were and the others one place up, and
\* reports addedValues[idx] = v; with idx omitted it appends v and reports
\* addedValues[len] = v.
C17_InsertSplices ==
    [][applied'.op = "InsertValue" =>
         LET v == applied'.update.value
             idx == applied'.update.index
             at == IF idx = Undefined THEN Len(array) ELSE idx
         IN  /\ applied'.err = ""
             /\ Len(array') = Len(array) + 1
             /\ \A i \in 1..at : array'[i] = array[i]
             /\ array'[at + 1] = v
             /\ \A i \in (at + 1)..Len(array) : array'[i + 1] = array[i]
             /\ applied'.addedAt = at]_vars

\* The update targets a field whose array does not hold the value at the index.
Stale(obj, f) ==
    /\ f.update.kind = "RemoveValue"
    /\ ~(f.key \in DOMAIN obj.val /\ HoldsAt(obj.val[f.key], f.update.index, f.update.value))

\* C18: a RemoveValue(v, idx) whose array does not hold v at idx fails with an error
\* and leaves the container's value as it was, applied directly or as a child of an
\* UpdateKey or of a compound update whose other children target other fields; when
\* the array holds v at idx exactly that element is removed and removedValues[idx]
\* is reported.
C18_StaleRemoveFails ==
    [][/\ applied'.op = "RemoveValue" =>
            IF HoldsAt(array, applied'.update.index, applied'.update.value)
            THEN /\ applied'.err = ""
                 /\ array' = SpliceOut(array, applied'.update.index)
                 /\ applied'.removedAt = applied'.update.index
            ELSE applied'.err # "" /\ array' = array
       /\ (/\ applied'.op \in {"UpdateKey", "UpdateWith"}
           /\ \E i \in 1..Len(applied'.fieldUpdates) : Stale(held, applied'.fieldUpdates[i]))
             => (applied'.err # "" /\ held' = held)]_vars

\* C19: for every array, value x and index i in [0, len], InsertValue(x, i) followed
\* by RemoveValue(x, i) succeeds and gives back the elements of the original array
\* in their order.
C19_InsertRemoveRoundTrip ==
    [][(/\ applied.op = "InsertValue"
        /\ applied.update.index # Undefined
        /\ applied'.op = "RemoveValue"
        /\ applied'.update.value = applied.update.value
        /\ applied'.update.index = applied.update.index)
          => (applied'.err = "" /\ array' = prevArray)]_vars

\* C20: a compound update whose children all result in NoUpdate results in NoUpdate
\* and a newValue with the keys and values of the input; one whose children are
\* applied and do not all result in NoUpdate does not result in NoUpdate.
C20_NoUpdateAbsorbing ==
    [][(applied'.op = "UpdateWith" /\ applied'.err = "") =>
         IF \A i \in 1..Len(applied'.results) : applied'.results[i] = "NoUpdate"
         THEN /\ applied'.result = "NoUpdate"
              /\ KeysOf(held') = KeysOf(held)
              /\ held' = held
         ELSE applied'.result # "NoUpdate"]_vars

\* C21: applyMutate leaves the fields of the update it is called on as they were,
\* and the same instance applied to two equal arrays, one after the other, gives
\* equal arrays and reports equal change-sets.
C21_UpdateImmutable ==
    [][/\ applied'.op \in {"InsertValue", "RemoveValue", "again"}
            => applied'.inst = applied'.update
       /\ applied'.op = "again" =>
            /\ array' = array
            /\ applied'.addedAt = applied.addedAt
            /\ applied'.removedAt = applied.removedAt
            /\ applied'.err = applied.err]_vars

\* The entries of the buffer above version r, in the order they were pushed.
Above(buf, r) == SelectSeq(buf, LAMBDA e : e.version > r)

C23_AdoptedVersionTagsEdits ==
    [][/\ last'.op = "rebaseUpdate" =>
            /\ globalVersion' = last'.update.globalVersion
            /\ localVersion' = localVersion
       /\ last'.op \in Builders =>
            /\ globalVersion' = globalVersion
            /\ \A i \in (Len(published) + 1)..Len(published') :
                   published'[i].globalVersion = globalVersion]_vars

\* C23 witness: an updateCell after a rebaseUpdate that adopted a new globalVersion
\* published a message tagged with it.
C23_Witness ==
    /\ last.op = "updateCell"
    /\ globalVersion # InitialVersion
    /\ Len(published) > 0
    /\ published[Len(published)].kind = "UpdateCell"
    /\ published[Len(published)].globalVersion = globalVersion

\* C24: addUpdate with a matching localVersion appends the message to the buffer
\* under that version and to the end of the published list; no step removes or
\* reorders a published message; the buffer holds a suffix of the published
\* messages, in publication order.
C24_PublishedAppendOnly ==
    [][/\ (last'.op = "addUpdate" /\ last'.update.localVersion = localVersion) =>
            /\ published' = Append(published, last'.update)
            /\ edits' = Append(edits, [version |-> localVersion, edit |-> last'.update])
       /\ Len(published') >= Len(published)
       /\ SubSeq(published', 1, Len(published)) = published
       /\ Len(edits') <= Len(published')
       /\ \A i \in 1..Len(edits') :
              /\ edits'[i].edit = published'[Len(published') - Len(edits') + i]
              /\ edits'[i].version = edits'[i].edit.localVersion]_vars

\* C24 witness: an addUpdate appended a second message, and the buffer holds the
\* last published message only.
C24_Witness ==
    /\ Len(published) = 2
    /\ Len(edits) = 1
    /\ edits[1].edit = published[2]
    /\ \E i \in 1..2 : published[i].kind = "SetCellOutput" /\ published[i].id = 1

\* C30: rebaseUpdate with a message whose reference is at or above localVersion
\* returns the message as it came and leaves the buffer, the published list,
\* localVersion and the notebook as they were; globalVersion becomes the message's.
C30_NothingToRebase ==
    [][(last'.op = "rebaseUpdate" /\ last'.update.localVersion >= localVersion) =>
         /\ last'.out = last'.update
         /\ last'.handed = <<>>
         /\ edits' = edits
         /\ published' = published
         /\ localVersion' = localVersion
         /\ globalVersion' = last'.update.globalVersion
         /\ UNCHANGED nbVars]_vars

\* C30 witness: a message referencing the handler's localVersion arrived while the
\* buffer held messages, and changed globalVersion.
C30_Witness ==
    /\ last.op = "rebaseUpdate"
    /\ last.update.localVersion >= localVersion
    /\ Len(edits) > 0
    /\ globalVersion # InitialVersion
    /\ last.out = last.update

\* C25: the observer insertCell registers on the cellOrder view is one-shot: once
\* it has resolved the pending result it is no longer registered, and no later
\* change of cellOrder calls it.
C25_ObserverOneShot ==
    \A i \in 1..Len(insertObs) :
        insertObs[i].resolved # Undefined =>
            (~insertObs[i].registered /\ ~insertObs[i].late)

\* C28: the InsertCell messages that local insertCell calls publish carry pairwise
\* distinct cell ids, also when a call is made before the cell of an earlier call
\* is in cellOrder.
C28_DistinctInsertIds ==
    \A i \in 1..Len(published) : \A j \in 1..Len(published) :
        (i # j /\ published[i].kind = "InsertCell" /\ published[j].kind = "InsertCell")
            => published[i].id # published[j].id

\* C26: a cell id that newly appears in cellOrder gets its watchers and is recorded
\* in cellWatchers; a cell id that disappears from cellOrder loses its watchers and
\* its record, so cellWatchers holds ids of cellOrder only and a later change of the
\* language of a removed cell publishes nothing.
C26_WatchersFollowOrder ==
    [][/\ \A id \in Range(cellOrder') \ Range(cellOrder) :
              id \in cellWatchers' /\ watchObs'[id] = watchObs[id] + 1
       /\ \A id \in Range(cellOrder) \ Range(cellOrder') :
              id \notin cellWatchers' /\ watchObs'[id] = 0
       /\ cellWatchers' \subseteq Range(cellOrder')
       /\ (last'.op = "setCellLanguage" /\ last'.selected \notin Range(cellOrder))
              => published' = published]_vars

\* C27: SetValue(v) applied to an object, v being another object, reports as
\* removedValues exactly the fields of the old object that v does not have, as
\* addedValues exactly the fields of v that the old object does not have, and
\* fieldUpdates with an entry for exactly the keys added, removed or changed in
\* value; applied to the value v itself it results in NoUpdate.
C27_SetValueDiff ==
    [][applied'.op = "SetValue" =>
         IF applied'.identical THEN applied'.result = "NoUpdate" /\ held' = held
         ELSE LET old == held.val
                  new == held'.val
                  changed == {k \in DOMAIN old \cap DOMAIN new : old[k] # new[k]}
              IN  /\ applied'.removedValues = [k \in DOMAIN old \ DOMAIN new |-> old[k]]
                  /\ applied'.addedValues = [k \in DOMAIN new \ DOMAIN old |-> new[k]]
                  /\ applied'.fieldResults.defined
                  /\ applied'.fieldResults.keys =
                        (DOMAIN old \ DOMAIN new) \cup (DOMAIN new \ DOMAIN old) \cup changed]_vars

\* C29: a watcher installed when a non-zero id became activeCellId resets
\* activeCellId to undefined at the first update after which its cell is not
\* selected, and is removed in that update; and activeCellId is not reset while a
\* different cell that has become the active, selected cell stays selected.
C29_WatcherResetsOnce ==
    [][/\ \A k \in activeWatchers :
              (k \in DOMAIN cells' /\ Changed(cells, cells', k) /\ ~cells'[k].selected)
                  => (activeCellId' = Undefined /\ k \notin activeWatchers')
       /\ (/\ last'.op # "selectCell"
           /\ activeCellId \in DOMAIN cells
           /\ cells[activeCellId].selected
           /\ activeCellId \in DOMAIN cells'
           /\ cells'[activeCellId].selected)
              => activeCellId' = activeCellId]_vars

\* What selectCell leaves alone in a cell: every field but the selected and
\* editing flags (and their presence).
Unselected(cell) == [cell EXCEPT !.selected = FALSE, !.editing = FALSE, !.bare = FALSE]

\* C31: selectCell changes nothing but activeCellId and the selected and editing
\* flags of cells: cellOrder, the key set of cells and every other cell field are
\* unchanged, and it publishes no message and leaves localVersion, globalVersion
\* and the EditBuffer unchanged, for watched cells too.
C31_SelectCellFrame ==
    [][last'.op = "selectCell" =>
         /\ cellOrder' = cellOrder
         /\ DOMAIN cells' = DOMAIN cells
         /\ \A k \in DOMAIN cells : Unselected(cells'[k]) = Unselected(cells[k])
         /\ published' = published
         /\ localVersion' = localVersion
         /\ globalVersion' = globalVersion
         /\ edits' = edits]_vars

\* A watched cell has been selected for editing while another watched cell, selected
\* before, lost its flag.
C31_Witness ==
    /\ last.op = "selectCell"
    /\ last.ret \in DOMAIN cells
    /\ last.ret \in cellWatchers
    /\ watchObs[last.ret] > 0
    /\ cells[last.ret].selected
    /\ cells[last.ret].editing
    /\ \E k \in cellWatchers \cap DOMAIN cells : k # last.ret /\ ~cells[k].selected

====
